---- MODULE Spec2Model ----
(***************************************************************************)
(* Swapchain frame lifecycle of bevy_oxr (src/src/resources.rs).           *)
(*                                                                         *)
(* SwapchainInner holds a frame stream, a swapchain handle, the texture    *)
(* sequence `buffers` and the stored `image_index`.  Each lifecycle        *)
(* operation is one action; the XR runtime behind the frame stream and the *)
(* swapchain handle is a test double that records the calls it receives    *)
(* and answers each with a result.                                         *)
(***************************************************************************)
EXTENDS Integers, Sequences, FiniteSets, TLC

\* ------------------------------------------------------------------ bounds
MaxBuffers == 2     \* most textures in the swapchain image store
MaxViews == 3       \* longest views array handed to end()
MaxEntities == 3    \* most entities spawned in the ECS world
MaxBones == 2       \* most hand-bone entities spawned in the ECS world
NumThreads == 2     \* threads calling operations on the one swapchain

\* ------------------------------------------------------- program constants
\* 32-bit values are kept as two 16-bit limbs, [hi, lo] standing for
\* hi * 2^16 + lo with 0 <= lo < 2^16: a u32 has 0 <= hi < 2^16, an i32 has
\* -2^15 <= hi < 2^15.  Two such values are the same number iff both limbs agree.
LimbModulus == 65536        \* 2^16
SignLimb == 32768           \* 2^15: a u32 with hi >= 2^15 has its top bit set
NumJoints == 26             \* [[Transform; 26]; 2]: joints per hand

\* ------------------------------------------------------------ input sets
\* One pose + field-of-view pair per eye, as located by the runtime.
ViewValues == {[pose |-> "P0", fov |-> "F0"], [pose |-> "P1", fov |-> "F1"]}

\* The views arrays of every length 0..MaxViews in which neighbouring
\* views differ, so that views[0] and views[1] can be told apart.
ViewArrays ==
    UNION {{s \in [1..n -> ViewValues] : \A i \in 1..(n - 1) : s[i] # s[i + 1]}
           : n \in 0..MaxViews}

\* A 32-bit value from its two limbs.
Num(hi, lo) == [hi |-> hi, lo |-> lo]

\* Resolutions (u32 components): (1024, 1024), (2^31 - 1, 1024),
\* (2^31, 1024) and (1024, 2^32 - 1).
Resolutions ==
    {[x |-> Num(0, 1024), y |-> Num(0, 1024)],
     [x |-> Num(SignLimb - 1, LimbModulus - 1), y |-> Num(0, 1024)],
     [x |-> Num(SignLimb, 0), y |-> Num(0, 1024)],
     [x |-> Num(0, 1024), y |-> Num(LimbModulus - 1, LimbModulus - 1)]}

NoPassthrough == "None"
PassthroughLayers == {NoPassthrough, "H"}
DisplayTimes == {1, 2}
BlendModes == {"OPAQUE", "ALPHA_BLEND"}
Spaces == {"stage"}

EndArgs == [predicted_display_time : DisplayTimes,
            views : ViewArrays,
            stage : Spaces,
            resolution : Resolutions,
            environment_blend_mode : BlendModes,
            passthrough_layer : PassthroughLayers]

NoArgs == [predicted_display_time |-> 0, views |-> <<>>, stage |-> "none",
           resolution |-> [x |-> Num(0, 0), y |-> Num(0, 0)], environment_blend_mode |-> "none",
           passthrough_layer |-> NoPassthrough]

\* ------------------------------------------------------- the runtime double
\* Results of a runtime call: xr::Result<()> is Ok or an error code.
RtOk == "Ok"
RtErrors == {"ERROR_RUNTIME_FAILURE"}
CallOrderInvalid == "ERROR_CALL_ORDER_INVALID"
RtAnswers == {RtOk} \cup RtErrors

\* Frame lifecycle as the runtime sees it (spec 4.2).
LifecycleStates == {"Idle", "Begun", "ImageAcquired", "ImageWaited", "Released"}

\* The lifecycle state in which the runtime accepts each call.
ExpectedState(call) ==
    CASE call = "stream_begin"      -> "Idle"
      [] call = "swapchain_acquire" -> "Begun"
      [] call = "swapchain_wait"    -> "ImageAcquired"
      [] call = "swapchain_release" -> "ImageWaited"
      [] call = "stream_end"        -> "Released"

\* The lifecycle state after the runtime has accepted the call.
NextState(call) ==
    CASE call = "stream_begin"      -> "Begun"
      [] call = "swapchain_acquire" -> "ImageAcquired"
      [] call = "swapchain_wait"    -> "ImageWaited"
      [] call = "swapchain_release" -> "Released"
      [] call = "stream_end"        -> "Idle"

\* The runtime's result for `call` in lifecycle state `st`, when its own
\* outcome for an in-order call is `answer`.
RtResult(call, st, answer) ==
    IF st = ExpectedState(call) THEN answer ELSE CallOrderInvalid

\* The lifecycle state after the runtime has answered `call` with `res`.
RtLifecycle(call, st, res) ==
    IF res = RtOk THEN NextState(call) ELSE st

\* ------------------------------------------------------------------ state
VARIABLES
    lifecycle,      \* the runtime's frame lifecycle state
    buffers,        \* SwapchainInner.buffers: the texture sequence
    image_index,    \* SwapchainInner.image_index: the stored image index
    acquired,       \* an acquire_image has stored an index since construction
    panicked,       \* the calling thread has unwound from a panic
    last,           \* the most recent operation: its arguments, runtime calls and result
    teardown,       \* what Drop for SwapchainInner did, once it has run
    prev,           \* the first end() of a pair: its arguments and runtime calls
    th,             \* per thread: the operation it is in and its place in it
    holder,         \* per Mutex (stream, handle, image_index): the thread holding it
    poisoned,       \* the Mutexes a panicking holder has poisoned
    latest,         \* the index the runtime handed out last, NoIndex before the first
    world,          \* per entity: whether it is spawned, its marker and its Parent
    commands,       \* the Commands queued by adopt_open_xr_trackers, not yet applied
    adoption,       \* the latest step of the tracker systems and the world before it
    bones,          \* the hand-bone entities: HandBone, Hand, status, Transform, radius
    frame,          \* the latest run of the hand emulation: its inputs, the bones before
    quat            \* verify_quat: its input, its result, and the result verified again

cvars == <<th, holder, poisoned, latest>>
evars == <<world, commands, adoption, bones, frame, quat>>

vars == <<lifecycle, buffers, image_index, acquired, panicked, last, teardown, prev,
          th, holder, poisoned, latest, world, commands, adoption, bones, frame, quat>>

NoCall == <<>>
NoViews == <<>>

OpRecord(op, pre, args, calls, rt, result, ret) ==
    [op |-> op, pre |-> pre, args |-> args, calls |-> calls, rt |-> rt,
     result |-> result, ret |-> ret]

\* ------------------------------------------------------------ conversions
\* `resolution.x as _` with an i32 target: a u32 -> i32 `as` cast keeps the
\* 32 bits and reads them in two's complement, so a set top bit wraps the
\* value to u - 2^32.
AsI32(u) == IF u.hi >= SignLimb THEN Num(u.hi - LimbModulus, u.lo) ELSE u

\* `i as u32` of the usize eye index: the low 32 bits, which for the two
\* call sites make_view(0) and make_view(1) is the index itself.
AsU32(i) == i

\* `image_index as _` with a usize target: u32 -> usize zero-extends.
AsUsize(u) == u

\* ------------------------------------------------------- construction
Textures(n) == [i \in 1..n |-> i]

\* What teardown did: the length of the store when it began, the removals
\* of the loop, the textures leaked (in order) and the textures destroyed.
Teardown(done, n, removals, leaked, destroyed) ==
    [done |-> done, n |-> n, removals |-> removals, leaked |-> leaked,
     destroyed |-> destroyed]

NotTornDown == Teardown(FALSE, 0, 0, <<>>, {})

\* The first end() of a pair: its arguments, the stored index it ran with
\* and the runtime calls it issued.
Prev(op, args, idx, calls) == [op |-> op, args |-> args, image_index |-> idx, calls |-> calls]

NoPrev == Prev("none", NoArgs, 0, NoCall)

\* ---------------------------------------------------------------- threads
Threads == 1..NumThreads
NoThread == 0

\* pub(crate) stream: Mutex<..>, handle: Mutex<..>, image_index: Mutex<usize>
Locks == {"stream", "handle", "image_index"}

\* A thread outside every operation.
Idle == [op |-> "idle", ip |-> 0, k |-> 0]


NoIndex == 0 - 1

\* Entities of the ECS world; NoEntity stands for a missing Parent component.
Entities == 1..MaxEntities
NoEntity == 0
Markers == {"none", "OpenXRTracker", "OpenXRTrackingRoot"}
EntityRecord(spawned, marker, parent) ==
    [spawned |-> spawned, marker |-> marker, parent |-> parent]
Unspawned == EntityRecord(FALSE, "none", NoEntity)
EmptyWorld == [e \in Entities |-> Unspawned]
Adoption(op, before, runs) == [op |-> op, before |-> before, runs |-> runs]

\* The run of the hand emulation: whether it has run, the controller
\* transforms and curls it read, and the bones it found.
Frame(ran, left, right, curls, before) ==
    [ran |-> ran, left |-> left, right |-> right, curls |-> curls, before |-> before]
\* get_single() is Err: no controller transform (or more than one).
NoTransform == "Err"
NoFrame == Frame(FALSE, NoTransform, NoTransform, <<>>, <<>>)

\* An f32 is NaN, an infinity, zero, or sign * 2^exp with MinExp <= exp <= MaxExp
\* (the powers of two of the format, subnormal ones included).
MaxExp == 127
MinExp == 0 - 149
F32(class, sign, exp) == [class |-> class, sign |-> sign, exp |-> exp]
NaN == F32("NaN", 1, 0)
Inf(sign) == F32("Inf", sign, 0)
Zero == F32("Zero", 1, 0)
Pow2(sign, exp) == F32("Pow2", sign, exp)
One == Pow2(1, 0)
Quat(x, y, z, w) == [x |-> x, y |-> y, z |-> z, w |-> w]
\* Quat::IDENTITY
IDENTITY == Quat(Zero, Zero, Zero, One)
Verified(applied, input, result, again) ==
    [applied |-> applied, input |-> input, result |-> result, again |-> again]

Init ==
    /\ lifecycle = "Idle"
    /\ \E n \in 1..MaxBuffers : buffers = Textures(n)
    /\ image_index \in 0..MaxBuffers
    /\ acquired = FALSE
    /\ panicked = FALSE
    /\ last = OpRecord("new", "Idle", NoArgs, NoCall, "none", "none", NoViews)
    /\ teardown = NotTornDown
    /\ prev = NoPrev
    /\ th = [t \in Threads |-> Idle]
    /\ holder = [l \in Locks |-> NoThread]
    /\ poisoned = {}
    /\ latest = NoIndex
    /\ world = EmptyWorld
    /\ commands = <<>>
    /\ adoption = Adoption("none", EmptyWorld, 0)
    /\ bones = <<>>
    /\ frame = NoFrame
    /\ quat = Verified(0, IDENTITY, IDENTITY, IDENTITY)

\* ------------------------------------------------------------ runtime calls
\* A call as the runtime double receives it.
RtCall(name, timeout, time, blend, layers) ==
    [call |-> name, timeout |-> timeout, display_time |-> time,
     blend_mode |-> blend, layers |-> layers]

PlainCall(name) == RtCall(name, "none", 0, "none", <<>>)

\* What an operation did: the runtime calls it issued, the runtime's result
\* ("none" when no call was issued), what it returned to its caller ("Panic"
\* when it unwound instead of returning), the views it returned, and the
\* stored image index it leaves.
Outcome(calls, rt, result, ret, idx) ==
    [calls |-> calls, rt |-> rt, result |-> result, ret |-> ret, image_index |-> idx]

\* ------------------------------------------------------------ SwapchainInner
\* fn begin(&self): self.stream.lock().unwrap().begin()
begin(st, answer, idx) ==
    LET res == RtResult("stream_begin", st, answer)
    IN  Outcome(<<PlainCall("stream_begin")>>, res, res, NoViews, idx)

\* A 2D view of one array layer of a texture.
create_view(texture, base_array_layer) ==
    [texture |-> texture, dimension |-> "D2", array_layer_count |-> 1,
     base_array_layer |-> base_array_layer]

\* Mutant: the views are always taken from the first texture.
get_render_views_first_buffer(bufs, idx) ==
    IF idx < Len(bufs)
    THEN Outcome(NoCall, "none", "Views",
                 <<create_view(bufs[1], 0), create_view(bufs[1], 1)>>, idx)
    ELSE Outcome(NoCall, "none", "Panic", NoViews, idx)

\* Mutant: both views cover array layer 0.
get_render_views_same_layer(bufs, idx) ==
    IF idx < Len(bufs)
    THEN Outcome(NoCall, "none", "Views",
                 <<create_view(bufs[idx + 1], 0), create_view(bufs[idx + 1], 0)>>, idx)
    ELSE Outcome(NoCall, "none", "Panic", NoViews, idx)

\* fn get_render_views(&self): indexing `buffers` out of range panics.
get_render_views(bufs, idx) ==
    IF idx < Len(bufs)
    THEN Outcome(NoCall, "none", "Views",
                 <<create_view(bufs[idx + 1], 0), create_view(bufs[idx + 1], 1)>>, idx)
    ELSE Outcome(NoCall, "none", "Panic", NoViews, idx)

\* Mutant: the stored index is one past the index the runtime handed out.
acquire_image_off_by_one(st, answer, k, idx) ==
    LET res == RtResult("swapchain_acquire", st, answer)
    IN  IF res = RtOk
        THEN Outcome(<<PlainCall("swapchain_acquire")>>, res, RtOk, NoViews, AsUsize(k) + 1)
        ELSE Outcome(<<PlainCall("swapchain_acquire")>>, res, res, NoViews, idx)

\* Mutant: a failed acquire resets the stored index.
acquire_image_resets_on_error(st, answer, k, idx) ==
    LET res == RtResult("swapchain_acquire", st, answer)
    IN  IF res = RtOk
        THEN Outcome(<<PlainCall("swapchain_acquire")>>, res, RtOk, NoViews, AsUsize(k))
        ELSE Outcome(<<PlainCall("swapchain_acquire")>>, res, res, NoViews, 0)

\* Mutant: a state guard rejects acquire_image outside Begun without calling
\* the runtime.
acquire_image_guarded(st, answer, k, idx) ==
    IF st # "Begun"
    THEN Outcome(NoCall, "none", "StateError", NoViews, idx)
    ELSE LET res == RtResult("swapchain_acquire", st, answer)
         IN  IF res = RtOk
             THEN Outcome(<<PlainCall("swapchain_acquire")>>, res, RtOk, NoViews, AsUsize(k))
             ELSE Outcome(<<PlainCall("swapchain_acquire")>>, res, res, NoViews, idx)

\* fn acquire_image(&self): `?` returns the runtime's error before the store;
\* k is the index the runtime hands out when it succeeds.
acquire_image(st, answer, k, idx) ==
    LET res == RtResult("swapchain_acquire", st, answer)
    IN  IF res = RtOk
        THEN Outcome(<<PlainCall("swapchain_acquire")>>, res, RtOk, NoViews, AsUsize(k))
        ELSE Outcome(<<PlainCall("swapchain_acquire")>>, res, res, NoViews, idx)

\* Mutant: the runtime's result is dropped and success returned.
wait_image_swallows_error(st, answer, idx) ==
    LET res == RtResult("swapchain_wait", st, answer)
    IN  Outcome(<<RtCall("swapchain_wait", "INFINITE", 0, "none", <<>>)>>,
                res, RtOk, NoViews, idx)

\* fn wait_image(&self): wait_image(xr::Duration::INFINITE)
wait_image(st, answer, idx) ==
    LET res == RtResult("swapchain_wait", st, answer)
    IN  Outcome(<<RtCall("swapchain_wait", "INFINITE", 0, "none", <<>>)>>,
                res, res, NoViews, idx)

\* Mutant: releasing the image resets the stored index.
release_image_resets_index(st, answer, idx) ==
    LET res == RtResult("swapchain_release", st, answer)
    IN  Outcome(<<PlainCall("swapchain_release")>>, res, res, NoViews, 0)

\* fn release_image(&self): self.handle.lock().unwrap().release_image()
release_image(st, answer, idx) ==
    LET res == RtResult("swapchain_release", st, answer)
    IN  Outcome(<<PlainCall("swapchain_release")>>, res, res, NoViews, idx)

\* let rect = xr::Rect2Di { offset: (0, 0), extent: (resolution.x as _, resolution.y as _) }
rect(resolution) ==
    [offset |-> [x |-> 0, y |-> 0],
     extent |-> [width |-> AsI32(resolution.x), height |-> AsI32(resolution.y)]]

\* let make_view = |i: usize| ...: the projection view of eye i (views[i] is
\* the Rust index; sequences here start at 1).
make_view(views, r, i) ==
    [pose |-> views[i + 1].pose,
     fov |-> views[i + 1].fov,
     sub_image |-> [swapchain |-> "handle",
                    image_array_index |-> AsU32(i),
                    image_rect |-> r]]

\* views[i] is in bounds.
InBounds(views, i) == i < Len(views)

CompositionLayerPassthrough(pass) ==
    [kind |-> "Passthrough", layer |-> pass, layer_flags |-> {}, space |-> "none",
     views |-> <<>>]

CompositionLayerProjection(flags, stage, pviews) ==
    [kind |-> "Projection", layer |-> "none", layer_flags |-> flags, space |-> stage,
     views |-> pviews]

\* Mutant: the Projection layer is put before the Passthrough layer.
layers_projection_first(passthrough_layer, stage, pviews) ==
    IF passthrough_layer # NoPassthrough
    THEN <<CompositionLayerProjection({"BLEND_TEXTURE_SOURCE_ALPHA"}, stage, pviews),
           CompositionLayerPassthrough(passthrough_layer)>>
    ELSE <<CompositionLayerProjection({}, stage, pviews)>>

\* Mutant: the Projection layer carries the blend flag with and without a
\* passthrough layer.
layers_always_blend(passthrough_layer, stage, pviews) ==
    IF passthrough_layer # NoPassthrough
    THEN <<CompositionLayerPassthrough(passthrough_layer),
           CompositionLayerProjection({"BLEND_TEXTURE_SOURCE_ALPHA"}, stage, pviews)>>
    ELSE <<CompositionLayerProjection({"BLEND_TEXTURE_SOURCE_ALPHA"}, stage, pviews)>>

\* The layer list of `match passthrough_layer { Some(pass) => ..., None => ... }`.
layers(passthrough_layer, stage, pviews) ==
    IF passthrough_layer # NoPassthrough
    THEN <<CompositionLayerPassthrough(passthrough_layer),
           CompositionLayerProjection({"BLEND_TEXTURE_SOURCE_ALPHA"}, stage, pviews)>>
    ELSE <<CompositionLayerProjection({}, stage, pviews)>>

\* Mutant: the image array index of both views is the stored image index.
submit_with_stored_index(a, st, answer, idx) ==
    LET r == rect(a.resolution)
        pview(i) == [make_view(a.views, r, i) EXCEPT !.sub_image.image_array_index = idx]
        res == RtResult("stream_end", st, answer)
    IN  Outcome(<<RtCall("stream_end", "none", a.predicted_display_time,
                         a.environment_blend_mode,
                         layers(a.passthrough_layer, a.stage, <<pview(0), pview(1)>>))>>,
                res, res, NoViews, idx)

\* The runtime call and result of end() once the two projection views exist.
submit(a, st, answer, idx) ==
    LET r == rect(a.resolution)
        pviews == <<make_view(a.views, r, 0), make_view(a.views, r, 1)>>
        res == RtResult("stream_end", st, answer)
    IN  Outcome(<<RtCall("stream_end", "none", a.predicted_display_time,
                         a.environment_blend_mode,
                         layers(a.passthrough_layer, a.stage, pviews))>>,
                res, res, NoViews, idx)

\* Mutant: the `views.is_empty()` early return is missing, so empty views
\* reach make_view(0).
end_without_empty_check(a, st, answer, idx) ==
    IF ~(InBounds(a.views, 0) /\ InBounds(a.views, 1))
    THEN Outcome(NoCall, "none", "Panic", NoViews, idx)
    ELSE submit(a, st, answer, idx)

\* fn end(&self, ...): empty views return Ok(()) before any runtime call;
\* otherwise make_view(0) and make_view(1) index `views` (out of range
\* panics) and the frame stream's end is called with the layer list.
end(a, st, answer, idx) ==
    IF a.views = <<>>
    THEN Outcome(NoCall, "none", RtOk, NoViews, idx)
    ELSE IF ~(InBounds(a.views, 0) /\ InBounds(a.views, 1))
    THEN Outcome(NoCall, "none", "Panic", NoViews, idx)
    ELSE submit(a, st, answer, idx)

\* ---------------------------------------------------------------- teardown
\* The loop of Drop: `iterations` more rounds of
\* `let v = self.buffers.remove(0); Box::leak(Box::new(v));`.
RECURSIVE drop_loop(_, _, _, _)
drop_loop(bufs, leaked, removals, iterations) ==
    IF iterations = 0
    THEN [buffers |-> bufs, leaked |-> leaked, removals |-> removals]
    ELSE drop_loop(Tail(bufs), Append(leaked, Head(bufs)), removals + 1, iterations - 1)

\* Mutant: `v` is not leaked, so each removed texture is destroyed at the
\* end of its loop round.
drop_without_leak(bufs) ==
    [buffers |-> <<>>, leaked |-> <<>>, removals |-> Len(bufs),
     destroyed |-> {bufs[i] : i \in 1..Len(bufs)}]

\* impl Drop for SwapchainInner: the range 0..self.buffers.len() is taken
\* once, before the loop.  After the body the Vec field itself is dropped,
\* which destroys every texture still in it.
drop(bufs) ==
    LET r == drop_loop(bufs, <<>>, 0, Len(bufs))
    IN  [buffers |-> r.buffers, leaked |-> r.leaked, removals |-> r.removals,
         destroyed |-> {r.buffers[i] : i \in 1..Len(r.buffers)}]

\* ------------------------------------------------------------------ actions
\* The swapchain exists and its caller has not unwound.
Alive == ~panicked /\ ~teardown.done

\* The state after operation `op` with outcome `o`: the runtime double moves
\* its lifecycle on the calls it received, and a panic ends the caller.
ApplyOp(op, args, o) ==
    /\ lifecycle' = IF o.calls = NoCall THEN lifecycle
                    ELSE RtLifecycle(o.calls[1].call, lifecycle, o.rt)
    /\ image_index' = o.image_index
    /\ panicked' = (o.result = "Panic")
    /\ last' = OpRecord(op, lifecycle, args, o.calls, o.rt, o.result, o.ret)
    /\ UNCHANGED <<buffers, teardown, cvars, evars>>

Apply(op, args, o) == ApplyOp(op, args, o) /\ UNCHANGED prev

Begin ==
    /\ Alive
    /\ \E answer \in RtAnswers :
          Apply("begin", NoArgs, begin(lifecycle, answer, image_index))
    /\ UNCHANGED acquired

GetRenderViews ==
    /\ Alive
    /\ Apply("get_render_views", NoArgs, get_render_views(buffers, image_index))
    /\ UNCHANGED acquired

AcquireImage ==
    /\ Alive
    /\ \E answer \in RtAnswers, k \in 0..(Len(buffers) - 1) :
          LET o == acquire_image(lifecycle, answer, k, image_index)
          IN  /\ Apply("acquire_image", NoArgs, o)
              /\ acquired' = (acquired \/ o.result = RtOk)

WaitImage ==
    /\ Alive
    /\ \E answer \in RtAnswers :
          Apply("wait_image", NoArgs, wait_image(lifecycle, answer, image_index))
    /\ UNCHANGED acquired

ReleaseImage ==
    /\ Alive
    /\ \E answer \in RtAnswers :
          Apply("release_image", NoArgs, release_image(lifecycle, answer, image_index))
    /\ UNCHANGED acquired

End ==
    /\ Alive
    /\ \E answer \in RtAnswers, a \in EndArgs :
          Apply("end", a, end(a, lifecycle, answer, image_index))
    /\ UNCHANGED acquired

\* The swapchain is dropped: Drop runs to its end.
Drop ==
    /\ Alive
    /\ LET d == drop(buffers)
       IN  /\ buffers' = d.buffers
           /\ teardown' = Teardown(TRUE, Len(buffers), d.removals, d.leaked, d.destroyed)
    /\ last' = OpRecord("drop", lifecycle, NoArgs, NoCall, "none", "none", NoViews)
    /\ UNCHANGED <<lifecycle, image_index, acquired, panicked, prev, cvars, evars>>

Next ==
    \/ Begin
    \/ GetRenderViews
    \/ AcquireImage
    \/ WaitImage
    \/ ReleaseImage
    \/ End
    \/ Drop

Spec == Init /\ [][Next]_vars

\* ------------------------------------------------------- end() called twice
\* end() as in End, remembering the first call; every later end() is given
\* the arguments of the first, in whatever state the operations between the
\* two have left.
EndPaired ==
    /\ Alive
    /\ \E answer \in RtAnswers, a \in EndArgs :
          /\ prev.op = "end" => a = prev.args
          /\ LET o == end(a, lifecycle, answer, image_index)
             IN  /\ ApplyOp("end", a, o)
                 /\ prev' = IF prev.op = "end" THEN prev
                            ELSE Prev("end", a, image_index, o.calls)
    /\ UNCHANGED acquired

NextEnd ==
    \/ Begin
    \/ GetRenderViews
    \/ AcquireImage
    \/ WaitImage
    \/ ReleaseImage
    \/ EndPaired

SpecEnd == Init /\ [][NextEnd]_vars

\* ------------------------------------------------- end() in several spaces
\* The reference spaces a caller may pass as `stage: &xr::Space`.
ReferenceSpaces == {"stage", "local"}

\* Arguments of end() that reach the submission: two or more views, any
\* reference space, display time, blend mode and passthrough layer.
SubmitArgs ==
    {a \in [predicted_display_time : DisplayTimes,
            views : ViewArrays,
            stage : ReferenceSpaces,
            resolution : {[x |-> Num(0, 1024), y |-> Num(0, 1024)]},
            environment_blend_mode : BlendModes,
            passthrough_layer : PassthroughLayers] : Len(a.views) >= 2}

\* end() as in End, with the arguments of SubmitArgs.
EndSubmit ==
    /\ Alive
    /\ \E answer \in RtAnswers, a \in SubmitArgs :
          Apply("end", a, end(a, lifecycle, answer, image_index))
    /\ UNCHANGED acquired

NextSubmit ==
    \/ Begin
    \/ AcquireImage
    \/ WaitImage
    \/ ReleaseImage
    \/ EndSubmit

SpecSubmit == Init /\ [][NextSubmit]_vars

\* ------------------------------------------------------- several threads
\* Every operation takes `&self`, so threads sharing the swapchain may be
\* inside operations at the same time.  An operation is a sequence of steps:
\* taking a Mutex (`.lock().unwrap()`), a runtime call, the views check of
\* end(), the store and the read of image_index.  A step names the guards
\* dropped when it is done: a guard that is a temporary of a statement is
\* dropped at the end of that statement, a guard bound by `let` at the end
\* of the function.
LockStep(l) == [kind |-> "lock", lock |-> l, call |-> "none", unlock |-> {}]
CallStep(c, unlock) == [kind |-> "call", lock |-> "none", call |-> c, unlock |-> unlock]
ViewsStep == [kind |-> "views", lock |-> "none", call |-> "none", unlock |-> {}]
StoreStep(unlock) == [kind |-> "store", lock |-> "none", call |-> "none", unlock |-> unlock]
ReadStep(unlock) == [kind |-> "read", lock |-> "none", call |-> "none", unlock |-> unlock]

\* Mutant: begin() taking the handle guard first and keeping it over the
\* frame-stream call.
begin_steps_under_handle ==
    <<LockStep("handle"), LockStep("stream"),
      CallStep("stream_begin", {"stream", "handle"})>>

\* Mutant: begin() taking the handle guard while it holds the stream guard,
\* the reverse of end()'s order.
begin_steps_then_handle ==
    <<LockStep("stream"), LockStep("handle"),
      CallStep("stream_begin", {"stream", "handle"})>>

\* self.stream.lock().unwrap().begin()
begin_steps == <<LockStep("stream"), CallStep("stream_begin", {"stream"})>>

\* &self.buffers[*self.image_index.lock().unwrap()]
get_render_views_steps == <<LockStep("image_index"), ReadStep({"image_index"})>>

\* let image_index = self.handle.lock().unwrap().acquire_image()?;
\* *self.image_index.lock().unwrap() = image_index as _;
acquire_image_steps ==
    <<LockStep("handle"), CallStep("swapchain_acquire", {"handle"}),
      LockStep("image_index"), StoreStep({"image_index"})>>

\* self.handle.lock().unwrap().wait_image(xr::Duration::INFINITE)
wait_image_steps == <<LockStep("handle"), CallStep("swapchain_wait", {"handle"})>>

\* self.handle.lock().unwrap().release_image()
release_image_steps == <<LockStep("handle"), CallStep("swapchain_release", {"handle"})>>

\* let swapchain = self.handle.lock().unwrap(); the views check and
\* make_view; self.stream.lock().unwrap().end(..); `swapchain` lives to the
\* end of the function.
end_steps ==
    <<LockStep("handle"), ViewsStep, LockStep("stream"),
      CallStep("stream_end", {"stream", "handle"})>>

Operations ==
    {"begin", "get_render_views", "acquire_image", "wait_image", "release_image", "end"}

Steps(op) ==
    CASE op = "begin"            -> begin_steps
      [] op = "get_render_views" -> get_render_views_steps
      [] op = "acquire_image"    -> acquire_image_steps
      [] op = "wait_image"       -> wait_image_steps
      [] op = "release_image"    -> release_image_steps
      [] op = "end"              -> end_steps

\* The views arrays a thread may pass to end(): of length 0, 1 and 2.
ThreadViews ==
    {SubSeq(<<[pose |-> "P0", fov |-> "F0"], [pose |-> "P1", fov |-> "F1"]>>, 1, n)
       : n \in 0..2}

InOperation(t) == th[t].op \in Operations

\* The step thread t is at.
Step(t) == Steps(th[t].op)[th[t].ip]

At(t, kind) == InOperation(t) /\ Step(t).kind = kind

\* The Mutexes whose guard thread t holds.
Held(t) == {l \in Locks : holder[l] = t}

Released(ls) == [l \in Locks |-> IF l \in ls THEN NoThread ELSE holder[l]]

\* Thread t is done with its step: it goes on to the next one, or returns
\* when that was the last.
Proceed(t) ==
    IF th[t].ip = Len(Steps(th[t].op)) THEN Idle ELSE [th[t] EXCEPT !.ip = @ + 1]

\* Thread t returns: every guard it still holds is dropped.
Return(t) ==
    /\ th' = [th EXCEPT ![t] = Idle]
    /\ holder' = Released(Held(t))
    /\ UNCHANGED poisoned

\* Thread t panics: unwinding drops every guard it holds, and a guard
\* dropped while panicking poisons its Mutex.
Panic(t) ==
    /\ th' = [th EXCEPT ![t] = [Idle EXCEPT !.op = "panicked"]]
    /\ holder' = Released(Held(t))
    /\ poisoned' = poisoned \cup Held(t)

SeqUnchanged == UNCHANGED <<buffers, panicked, last, teardown, prev, evars>>

\* A thread calls an operation.
Invoke(t) ==
    /\ th[t].op = "idle"
    /\ \E op \in Operations : th' = [th EXCEPT ![t] = [op |-> op, ip |-> 1, k |-> 0]]
    /\ UNCHANGED <<lifecycle, image_index, acquired, holder, poisoned, latest>>
    /\ SeqUnchanged

\* `.lock().unwrap()`: waits while another guard is alive; on a poisoned
\* Mutex lock() returns Err and unwrap() panics.
TakeLock(t) ==
    /\ At(t, "lock")
    /\ holder[Step(t).lock] = NoThread
    /\ IF Step(t).lock \in poisoned
       THEN Panic(t)
       ELSE /\ holder' = [holder EXCEPT ![Step(t).lock] = t]
            /\ th' = [th EXCEPT ![t] = Proceed(t)]
            /\ UNCHANGED poisoned
    /\ UNCHANGED <<lifecycle, image_index, acquired, latest>>
    /\ SeqUnchanged

\* The runtime call of an operation returns.  `?` in acquire_image returns
\* the error at once; a successful acquire keeps the index in a local.
RuntimeCall(t) ==
    /\ At(t, "call")
    /\ LET c == Step(t).call
       IN  \E answer \in RtAnswers,
              k \in IF c = "swapchain_acquire" THEN 0..(Len(buffers) - 1) ELSE {0} :
             LET res == RtResult(c, lifecycle, answer)
             IN  /\ lifecycle' = RtLifecycle(c, lifecycle, res)
                 /\ latest' = IF c = "swapchain_acquire" /\ res = RtOk THEN k ELSE latest
                 /\ holder' = Released(Step(t).unlock)
                 /\ th' = [th EXCEPT ![t] =
                              IF c = "swapchain_acquire" /\ res # RtOk THEN Idle
                              ELSE [Proceed(t) EXCEPT !.k = AsUsize(k)]]
    /\ UNCHANGED <<image_index, acquired, poisoned>>
    /\ SeqUnchanged

\* end(): `if views.is_empty() { return Ok(()) }`, then make_view(0) and
\* make_view(1), which panic on a view that is not there.
CheckViews(t) ==
    /\ At(t, "views")
    /\ \E views \in ThreadViews :
          IF views = <<>>
          THEN Return(t)
          ELSE IF ~(InBounds(views, 0) /\ InBounds(views, 1))
          THEN Panic(t)
          ELSE /\ th' = [th EXCEPT ![t] = Proceed(t)]
               /\ UNCHANGED <<holder, poisoned>>
    /\ UNCHANGED <<lifecycle, image_index, acquired, latest>>
    /\ SeqUnchanged

\* acquire_image(): *guard = image_index as _
StoreIndex(t) ==
    /\ At(t, "store")
    /\ image_index' = th[t].k
    /\ acquired' = TRUE
    /\ holder' = Released(Step(t).unlock)
    /\ th' = [th EXCEPT ![t] = Proceed(t)]
    /\ UNCHANGED <<lifecycle, poisoned, latest>>
    /\ SeqUnchanged

\* get_render_views(): buffers[*guard] panics out of range, with the guard
\* alive; otherwise the two views are made and returned.
ReadIndex(t) ==
    /\ At(t, "read")
    /\ IF image_index < Len(buffers)
       THEN /\ holder' = Released(Step(t).unlock)
            /\ th' = [th EXCEPT ![t] = Proceed(t)]
            /\ UNCHANGED poisoned
       ELSE Panic(t)
    /\ UNCHANGED <<lifecycle, image_index, acquired, latest>>
    /\ SeqUnchanged

NextThreads ==
    \E t \in Threads :
       \/ Invoke(t)
       \/ TakeLock(t)
       \/ RuntimeCall(t)
       \/ CheckViews(t)
       \/ StoreIndex(t)
       \/ ReadIndex(t)

SpecThreads == Init /\ [][NextThreads]_vars

\* ------------------------------------------------------- tracker adoption
\* Query<Entity, With<OpenXRTrackingRoot>>
tracking_root_query(w) ==
    {e \in Entities : w[e].spawned /\ w[e].marker = "OpenXRTrackingRoot"}

\* Query<Entity, (With<OpenXRTracker>, Without<Parent>)>
tracker_query(w) ==
    {e \in Entities :
        w[e].spawned /\ w[e].marker = "OpenXRTracker" /\ w[e].parent = NoEntity}

\* The entities of a query in iteration order.
Iter(query) == SelectSeq([e \in Entities |-> e], LAMBDA e : e \in query)

\* commands.entity(parent).add_child(child)
AddChild(parent, child) == [parent |-> parent, child |-> child]

\* Mutant: the Without<Parent> filter is missing, so every tracker is adopted.
adopt_every_tracker(w) ==
    LET roots == tracking_root_query(w)
        every == {e \in Entities : w[e].spawned /\ w[e].marker = "OpenXRTracker"}
    IN  IF Cardinality(roots) = 1
        THEN LET root == CHOOSE r \in roots : TRUE
                 trackers == Iter(every)
             IN  [i \in 1..Len(trackers) |-> AddChild(root, trackers[i])]
        ELSE <<>>

\* Mutant: get_single() is replaced by taking the first root there is.
adopt_under_first_root(w) ==
    LET roots == tracking_root_query(w)
    IN  IF roots # {}
        THEN LET root == CHOOSE r \in roots : \A o \in roots : r <= o
                 trackers == Iter(tracker_query(w))
             IN  [i \in 1..Len(trackers) |-> AddChild(root, trackers[i])]
        ELSE <<>>

\* fn adopt_open_xr_trackers: the commands it queues.  get_single() is Ok
\* only for exactly one root; then one add_child per tracker of the query.
adopt_open_xr_trackers(w) ==
    LET roots == tracking_root_query(w)
    IN  IF Cardinality(roots) = 1
        THEN LET root == CHOOSE r \in roots : TRUE
                 trackers == Iter(tracker_query(w))
             IN  [i \in 1..Len(trackers) |-> AddChild(root, trackers[i])]
        ELSE <<>>

\* The world after the queued commands are applied in order: add_child gives
\* the child a Parent component naming the parent.
RECURSIVE apply_commands(_, _)
apply_commands(w, queue) ==
    IF queue = <<>>
    THEN w
    ELSE apply_commands([w EXCEPT ![Head(queue).child].parent = Head(queue).parent],
                        Tail(queue))

TrackersUnchanged ==
    UNCHANGED <<lifecycle, buffers, image_index, acquired, panicked, last, teardown, prev,
                cvars, bones, frame, quat>>

\* The entities spawned so far; ids are handed out in order.
Spawned == {e \in Entities : world[e].spawned}

\* Another system spawns an entity: a tracking root, a tracker or some other
\* entity, with or without a parent among the entities there are.  The
\* tracking root and the trackers are separate entities.
Spawn ==
    /\ commands = <<>>
    /\ Cardinality(Spawned) < MaxEntities
    /\ \E marker \in Markers, parent \in Spawned \cup {NoEntity} :
          world' = [world EXCEPT ![Cardinality(Spawned) + 1] =
                       EntityRecord(TRUE, marker, parent)]
    /\ adoption' = Adoption("spawn", world, 0)
    /\ UNCHANGED commands
    /\ TrackersUnchanged

\* The schedule runs adopt_open_xr_trackers; its commands stay queued until
\* the next sync point, and the system does not run again before that.
AdoptOpenXrTrackers ==
    /\ commands = <<>>
    /\ adoption.op # "adopt"
    /\ adoption.runs < 2
    /\ commands' = adopt_open_xr_trackers(world)
    /\ adoption' = Adoption("adopt", world, adoption.runs + 1)
    /\ UNCHANGED world
    /\ TrackersUnchanged

\* The sync point: the queued commands are applied to the world.
ApplyDeferred ==
    /\ adoption.op = "adopt"
    /\ world' = apply_commands(world, commands)
    /\ commands' = <<>>
    /\ adoption' = Adoption("apply", adoption.before, adoption.runs)
    /\ TrackersUnchanged

NextTrackers ==
    \/ Spawn
    \/ AdoptOpenXrTrackers
    \/ ApplyDeferred

\* The swapchain plays no part in the tracker systems: one of its initial
\* states stands for all.
InitTrackers == Init /\ buffers = Textures(1) /\ image_index = 0

SpecTrackers == InitTrackers /\ [][NextTrackers]_vars

\* ---------------------------------------------------------- hand emulation
Hands == {"Left", "Right"}
HandBones == {"Palm", "LittleTip"}
BoneTrackingStatus == {"Emulated", "Tracked"}
Curls == {"open", "fist"}

\* The curls read for the left and the right hand in one run, the two
\* differing so that the data of the hands can be told apart.
CurlPairs == {c \in [1..2 -> Curls] : c[1] # c[2]}

\* A Transform by where it comes from: the rest pose a bone is spawned
\* with, a pose reported by hand tracking, Transform::default(), or the
\* emulation of a joint of a hand from a controller transform and a curl.
Pose(origin, hand, controller, curl, joint) ==
    [origin |-> origin, hand |-> hand, controller |-> controller, curl |-> curl,
     joint |-> joint]
RestTransform == Pose("rest", "none", "none", "none", 0)
TrackedTransform == Pose("tracked", "none", "none", "none", 0)

\* Transform::default()
IdentityTransform == Pose("identity", "none", "none", "none", 0)

\* A bone radius by where it comes from.
BoneRadius(origin, bone) == [origin |-> origin, bone |-> bone]

\* The controller transforms the two queries can yield.
LeftTransforms == {NoTransform, "left grip"}
RightTransforms == {NoTransform, "right grip"}

\* bone.get_index_from_bone(): the joint index of a bone, Palm the first
\* and LittleTip the last of the NumJoints joints.
get_index_from_bone(bone) ==
    CASE bone = "Palm"      -> 0
      [] bone = "LittleTip" -> NumJoints - 1

\* get_bone_gizmo_style(bone).0: the radius drawn for a bone.
get_bone_gizmo_style(bone) == BoneRadius("gizmo", bone)

\* update_hand_bones_emulated(transform, hand, curls..): the NumJoints
\* transforms of one hand, each determined by the controller transform, the
\* hand, the curls and the joint.
update_hand_bones_emulated(controller_transform, hand, curl) ==
    [joint \in 0..(NumJoints - 1) |->
        Pose("emulated", hand, controller_transform, curl, joint)]

\* let mut data = [[Transform::default(); 26]; 2], then data[0] from the left
\* controller and data[1] from the right one when get_single() is Ok.
emulated_data(left, right, curls) ==
    [h \in {0, 1} |->
        IF h = 0
        THEN IF left # NoTransform
             THEN update_hand_bones_emulated(left, "Left", curls[1])
             ELSE [joint \in 0..(NumJoints - 1) |-> IdentityTransform]
        ELSE IF right # NoTransform
             THEN update_hand_bones_emulated(right, "Right", curls[2])
             ELSE [joint \in 0..(NumJoints - 1) |-> IdentityTransform]]

HandBoneRecord(bone, hand, status, transform, radius) ==
    [bone |-> bone, hand |-> hand, status |-> status, transform |-> transform,
     radius |-> radius]

\* Mutant: a bone whose hand has no controller transform is left unchanged.
update_bone_keeps_without_controller(b, data) ==
    IF b.status = "Tracked"
    THEN b
    ELSE LET t == data[IF b.hand = "Left" THEN 0 ELSE 1][get_index_from_bone(b.bone)]
         IN  IF t = IdentityTransform
             THEN b
             ELSE [b EXCEPT !.radius = get_bone_gizmo_style(b.bone), !.transform = t]

\* Mutant: the data of the left hand is used for the bones of both hands.
update_bone_from_left_data(b, data) ==
    IF b.status = "Tracked"
    THEN b
    ELSE [b EXCEPT !.radius = get_bone_gizmo_style(b.bone),
                   !.transform = data[0][get_index_from_bone(b.bone)]]

\* The body of `for (mut t, bone, hand, status, mut radius) in bones.iter_mut()`.
update_bone(b, data) ==
    IF b.status = "Tracked"
    THEN b
    ELSE [b EXCEPT !.radius = get_bone_gizmo_style(b.bone),
                   !.transform = data[IF b.hand = "Left" THEN 0 ELSE 1]
                                     [get_index_from_bone(b.bone)]]

\* fn update_hand_skeleton_from_emulated: the bones after the run.
update_hand_skeleton_from_emulated(bs, left, right, curls) ==
    LET data == emulated_data(left, right, curls)
    IN  [i \in 1..Len(bs) |-> update_bone(bs[i], data)]

HandsUnchanged ==
    UNCHANGED <<lifecycle, buffers, image_index, acquired, panicked, last, teardown, prev,
                cvars, world, commands, adoption, quat>>

\* Another system spawns a hand bone, not tracked yet, at its rest pose.
SpawnHandBone ==
    /\ Len(bones) < MaxBones
    /\ \E bone \in HandBones, hand \in Hands :
          bones' = Append(bones, HandBoneRecord(bone, hand, "Emulated", RestTransform,
                                                 BoneRadius("rest", bone)))
    /\ frame' = NoFrame
    /\ HandsUnchanged

\* The hand tracking of the runtime reports on one bone: tracked, with its
\* pose and radius, or not tracked.
TrackBone ==
    /\ \E i \in 1..Len(bones), status \in BoneTrackingStatus :
          bones' = [bones EXCEPT ![i] =
                       IF status = "Tracked"
                       THEN [@ EXCEPT !.status = status, !.transform = TrackedTransform,
                                      !.radius = BoneRadius("tracked", bones[i].bone)]
                       ELSE [@ EXCEPT !.status = status]]
    /\ frame' = NoFrame
    /\ HandsUnchanged

\* The schedule runs update_hand_skeleton_from_emulated.
UpdateHandSkeletonFromEmulated ==
    /\ \E left \in LeftTransforms, right \in RightTransforms, curls \in CurlPairs :
          /\ bones' = update_hand_skeleton_from_emulated(bones, left, right, curls)
          /\ frame' = Frame(TRUE, left, right, curls, bones)
    /\ HandsUnchanged

NextHands ==
    \/ SpawnHandBone
    \/ TrackBone
    \/ UpdateHandSkeletonFromEmulated

SpecHands == InitTrackers /\ [][NextHands]_vars

\* ------------------------------------------------------------- verify_quat
\* The exponents tried: the ends of the format, and the exponents around
\* which a square underflows to zero or overflows to infinity.
Exponents == {MinExp, 0 - 75, 0 - 74, 0 - 1, 0, 1, 63, 64, MaxExp}
Components == {"x", "y", "z", "w"}

\* The quaternions tried: zero, and those with one component that is not
\* zero: a power of two of either sign, an infinity or NaN.
Quats ==
    {Quat(Zero, Zero, Zero, Zero)}
    \cup {[Quat(Zero, Zero, Zero, Zero) EXCEPT ![c] = v] :
             c \in Components,
             v \in {NaN, Inf(1), Inf(0 - 1)}
                   \cup {Pow2(sign, exp) : sign \in {1, 0 - 1}, exp \in Exponents}}

\* x * x in f32: the result rounds to zero below the smallest subnormal and
\* to infinity above the largest finite value.
square(v) ==
    CASE v.class = "NaN"  -> NaN
      [] v.class = "Inf"  -> Inf(1)
      [] v.class = "Zero" -> Zero
      [] v.class = "Pow2" -> IF 2 * v.exp > MaxExp THEN Inf(1)
                             ELSE IF 2 * v.exp < MinExp THEN Zero
                             ELSE Pow2(1, 2 * v.exp)

\* sqrt of a sum of squares.
sqrt(v) == IF v.class = "Pow2" THEN Pow2(1, v.exp \div 2) ELSE v

\* quat.length(): sqrt(x*x + y*y + z*z + w*w).  With at most one component
\* that is not zero the sum is the square of that component.
length(q) ==
    LET squares == {square(q[c]) : c \in Components}
    IN  sqrt(IF NaN \in squares THEN NaN
             ELSE IF Inf(1) \in squares THEN Inf(1)
             ELSE IF squares = {Zero} THEN Zero
             ELSE CHOOSE v \in squares : v # Zero)

\* quat.is_finite(): every component is finite.
is_finite(q) == \A c \in Components : q[c].class \in {"Zero", "Pow2"}

\* v / len in f32, for a finite v and a len that is not zero and not NaN.
div(v, len) ==
    IF v.class = "Zero" \/ len.class = "Inf"
    THEN Zero
    ELSE IF v.exp - len.exp > MaxExp THEN Inf(v.sign)
    ELSE IF v.exp - len.exp < MinExp THEN Zero
    ELSE Pow2(v.sign, v.exp - len.exp)

\* quat.normalize(): every component divided by the length.
normalize(q) == [c \in Components |-> div(q[c], length(q))]

\* pub fn verify_quat(mut quat: Quat) -> Quat
verify_quat(q) ==
    IF length(q) = Zero \/ ~is_finite(q)
    THEN normalize(IDENTITY)
    ELSE normalize(q)

QuatUnchanged ==
    UNCHANGED <<lifecycle, buffers, image_index, acquired, panicked, last, teardown, prev,
                cvars, world, commands, adoption, bones, frame>>

\* update_open_xr_controllers verifies an orientation read from the runtime.
VerifyQuat ==
    /\ \E q \in Quats :
          quat' = Verified(1, q, verify_quat(q), IDENTITY)
    /\ QuatUnchanged

\* The result is verified once more.
VerifyQuatAgain ==
    /\ quat.applied = 1
    /\ quat' = Verified(2, quat.input, quat.result, verify_quat(quat.result))
    /\ QuatUnchanged

NextQuat ==
    \/ VerifyQuat
    \/ VerifyQuatAgain

SpecQuat == InitTrackers /\ [][NextQuat]_vars

\* ------------------------------------------------------------------ claims
LifecycleOps == {"begin", "acquire_image", "wait_image", "release_image", "end"}

\* The runtime call each lifecycle operation stands for.
CallOf(op) ==
    CASE op = "begin"         -> "stream_begin"
      [] op = "acquire_image" -> "swapchain_acquire"
      [] op = "wait_image"    -> "swapchain_wait"
      [] op = "release_image" -> "swapchain_release"
      [] op = "end"           -> "stream_end"

\* The last operation was a lifecycle call issued in its place in the sequence.
InOrder == last.op \in LifecycleOps /\ last.pre = ExpectedState(CallOf(last.op))

\* The last operation was a lifecycle call issued out of its place.
OutOfOrder == last.op \in LifecycleOps /\ last.pre # ExpectedState(CallOf(last.op))

\* The Projection layer of a submitted layer list: its last element.
Projection(ls) == ls[Len(ls)]

\* C1: a lifecycle operation issued in order (end with non-empty views), with
\* no runtime call failing, forwards exactly one call, the one that
\* corresponds to it, returns success, and moves the lifecycle to the next
\* state of the sequence; after end that state is Idle.
C1_InOrderForwardsOneCall ==
    (/\ InOrder
     /\ last.rt \notin (RtErrors \cup {CallOrderInvalid})
     /\ (last.op = "end" => last.args.views # <<>>))
    => /\ Len(last.calls) = 1
       /\ last.calls[1].call = CallOf(last.op)
       /\ last.result = RtOk
       /\ lifecycle = NextState(CallOf(last.op))
       /\ (last.op = "end" => lifecycle = "Idle")

\* C2: end() with exactly two views submits exactly one layer list, which is
\* [Passthrough(H), Projection] when a passthrough layer H is supplied and
\* [Projection] otherwise; the Projection layer has exactly two views, view i
\* carrying views[i].pose, views[i].fov and image array index i.
C2_TwoViewsLayerList ==
    (last.op = "end" /\ Len(last.args.views) = 2)
    => /\ Len(last.calls) = 1
       /\ last.calls[1].call = "stream_end"
       /\ LET ls == last.calls[1].layers
              a == last.args
          IN  /\ IF a.passthrough_layer # NoPassthrough
                 THEN /\ Len(ls) = 2
                      /\ ls[1].kind = "Passthrough"
                      /\ ls[1].layer = a.passthrough_layer
                 ELSE Len(ls) = 1
              /\ Projection(ls).kind = "Projection"
              /\ Len(Projection(ls).views) = 2
              /\ \A i \in {0, 1} :
                    /\ Projection(ls).views[i + 1].pose = a.views[i + 1].pose
                    /\ Projection(ls).views[i + 1].fov = a.views[i + 1].fov
                    /\ Projection(ls).views[i + 1].sub_image.image_array_index = i

C2_Witness ==
    /\ last.op = "end"
    /\ Len(last.args.views) = 2
    /\ last.args.views[1] # last.args.views[2]
    /\ last.args.passthrough_layer = "H"
    /\ Len(last.calls) = 1
    /\ Len(last.calls[1].layers) = 2

\* C3: end() with an empty views array returns success and issues no runtime
\* call, so no layer is submitted and the runtime's lifecycle does not move,
\* with or without a passthrough layer.
C3_EmptyViewsNoSubmission ==
    (last.op = "end" /\ last.args.views = <<>>)
    => /\ last.result = RtOk
       /\ last.calls = NoCall
       /\ lifecycle = last.pre

C3_Witness ==
    /\ last.op = "end"
    /\ last.args.views = <<>>
    /\ last.args.passthrough_layer = "H"
    /\ last.pre = "Released"
    /\ last.result = RtOk

\* C4: end() with an empty views array, issued in order, completes the frame
\* lifecycle: after it returns the lifecycle is back in Idle (the frame
\* stream is no longer open).
C4_EmptyViewsCompletesLifecycle ==
    (last.op = "end" /\ last.args.views = <<>> /\ last.pre = "Released"
        /\ last.result = RtOk)
    => lifecycle = "Idle"

\* C5: once acquire_image has stored an index, and for as long as the
\* swapchain exists, the stored image index is a valid position of the
\* texture sequence (0 <= index < buffer_count), and get_render_views
\* addresses an existing texture (it does not panic).
C5_ImageIndexInRange ==
    acquired /\ ~teardown.done
    => /\ 0 <= image_index
       /\ image_index < Len(buffers)
       /\ (last.op = "get_render_views" => last.result = "Views")

C5_Witness ==
    /\ acquired
    /\ image_index = Len(buffers) - 1
    /\ image_index > 0
    /\ last.op = "get_render_views"
    /\ last.result = "Views"

\* C6: for every non-empty views array, of any length, end() returns a result
\* to its caller (it does not abort) and submits a Projection layer with
\* exactly two views built from views[0] and views[1].
C6_NonEmptyViewsNeverAborts ==
    (last.op = "end" /\ last.args.views # <<>>)
    => /\ last.result # "Panic"
       /\ Len(last.calls) = 1
       /\ Len(Projection(last.calls[1].layers).views) = 2

\* C7: for every u32 resolution R and each eye e in {0, 1}, the sub-image
\* rectangle of projection view e has offset (0, 0) and extent (R.x, R.y).
C7_RectIsResolution ==
    (last.op = "end" /\ Len(last.calls) = 1)
    => \A e \in {0, 1} :
          LET r == Projection(last.calls[1].layers).views[e + 1].sub_image.image_rect
          IN  /\ r.offset = [x |-> 0, y |-> 0]
              /\ r.extent.width = last.args.resolution.x
              /\ r.extent.height = last.args.resolution.y

StateError == "StateError"

C9_OutOfOrderRejected ==
    OutOfOrder => last.result = StateError /\ last.calls = NoCall

\* C9 (amended): the controller does not reject a lifecycle call issued out
\* of order: begin, acquire_image, wait_image, release_image and end with two
\* or more views forward their one runtime call exactly as in order and
\* return the runtime's result; no operation returns a state error.
C9_OutOfOrderForwarded ==
    OutOfOrder
    => /\ last.result # StateError
       /\ (last.op # "end" \/ Len(last.args.views) >= 2
             => /\ Len(last.calls) = 1
                /\ last.calls[1].call = CallOf(last.op)
                /\ last.result = last.rt)

C9_Witness ==
    /\ last.op = "acquire_image"
    /\ last.pre = "Idle"
    /\ Len(last.calls) = 1
    /\ last.calls[1].call = "swapchain_acquire"

\* No image is acquired in the current frame: before acquire_image, or after
\* release_image / end.
NoImageStates == {"Idle", "Begun", "Released"}

\* C10 (as claimed): get_render_views called when no image has been acquired
\* in the current frame is rejected with an error and returns no views.
C10_NoImageRejected ==
    (last.op = "get_render_views" /\ last.pre \in NoImageStates)
    => last.result # "Views" /\ last.ret = NoViews

\* C10 (amended): get_render_views has no error return and does not look at
\* the frame lifecycle: called when no image has been acquired in the current
\* frame, with the stored index a valid position, it returns two views over
\* buffers[stored index], the index left by the latest successful
\* acquire_image (or by construction).
C10_NoImageReturnsStoredViews ==
    (last.op = "get_render_views" /\ last.pre \in NoImageStates
        /\ image_index < Len(buffers))
    => /\ last.result = "Views"
       /\ Len(last.ret) = 2
       /\ \A i \in 1..2 : last.ret[i].texture = buffers[image_index + 1]

C10_Witness ==
    /\ last.op = "get_render_views"
    /\ last.pre = "Released"
    /\ acquired
    /\ image_index = 1
    /\ last.result = "Views"

\* C11: after a successful acquire_image, get_render_views returns a pair of
\* views both taken from buffers[stored index], the first over array layer 0
\* and the second over array layer 1, each a 2D view of one array layer; the
\* call changes neither the stored index nor the texture sequence.
C11_ViewsOfStoredIndex ==
    /\ [](last.op = "get_render_views" /\ acquired
            => /\ last.result = "Views"
               /\ Len(last.ret) = 2
               /\ \A i \in 1..2 :
                     /\ last.ret[i].texture = buffers[image_index + 1]
                     /\ last.ret[i].base_array_layer = i - 1
                     /\ last.ret[i].array_layer_count = 1
                     /\ last.ret[i].dimension = "D2")
    /\ [][last'.op = "get_render_views"
            => image_index' = image_index /\ buffers' = buffers]_vars

C11_Witness ==
    /\ last.op = "get_render_views"
    /\ last.pre = "ImageWaited"
    /\ acquired
    /\ image_index = 1
    /\ Len(last.ret) = 2

\* C12: teardown of a store of any length n removes each of the n textures
\* from the sequence and leaks it: the loop makes exactly n removals, leaves
\* the sequence empty, and no texture is destroyed.
C12_TeardownLeaksEveryTexture ==
    teardown.done
    => /\ teardown.removals = teardown.n
       /\ buffers = <<>>
       /\ teardown.leaked = Textures(teardown.n)
       /\ teardown.destroyed = {}

C12_Witness ==
    /\ teardown.done
    /\ teardown.n >= 2
    /\ Len(teardown.leaked) = teardown.n

\* C16: two end() calls with the same arguments issue the same runtime call
\* (the same layer list, display time and blend mode), whatever the stored
\* image index, the texture sequence and the operations between them; end()
\* changes neither the stored image index nor the texture sequence.
C16_EndIsFunctionOfArguments ==
    /\ [](prev.op = "end" /\ last.op = "end" /\ last.args = prev.args
            => last.calls = prev.calls)
    /\ [][last'.op = "end" => image_index' = image_index /\ buffers' = buffers]_vars

C16_Witness ==
    /\ prev.op = "end"
    /\ last.op = "end"
    /\ Len(prev.calls) = 1
    /\ Len(last.calls) = 1
    /\ last.pre = "Released"
    /\ image_index # prev.image_index

\* C17: the stored image index changes only in a successful acquire_image;
\* begin, wait_image, release_image, end and get_render_views leave it as it
\* is.  The texture sequence changes only in teardown.
C17_IndexHasOneWriter ==
    [][/\ image_index' # image_index
            => last'.op = "acquire_image" /\ last'.result = RtOk
       /\ buffers' # buffers => last'.op = "drop"]_vars

C17_Witness ==
    /\ last.op = "end"
    /\ last.pre = "Released"
    /\ lifecycle = "Idle"
    /\ acquired
    /\ image_index = 1
    /\ Len(buffers) = 2

\* C18: when the runtime's acquire call fails, acquire_image returns that
\* error and the stored image index keeps the value it had before the call.
C18_FailedAcquireKeepsIndex ==
    [][last'.op = "acquire_image" /\ last'.rt # RtOk
          => /\ last'.result = last'.rt
             /\ last'.result \in RtErrors \cup {CallOrderInvalid}
             /\ image_index' = image_index]_vars

C18_Witness ==
    /\ last.op = "acquire_image"
    /\ last.pre = "Begun"
    /\ last.rt = "ERROR_RUNTIME_FAILURE"
    /\ last.result = "ERROR_RUNTIME_FAILURE"
    /\ acquired
    /\ image_index = 1

\* ------------------------------------------------ claims, several threads
\* Thread t's runtime call c reaches the runtime in this step.
Reaches(t, c) == At(t, "call") /\ Step(t).call = c /\ th'[t] # th[t]

\* Thread t reads the stored index in this step.
Reads(t) == At(t, "read") /\ th'[t] # th[t]

\* The thread whose guard thread t is waiting for, if any.
WaitsOn(t) == IF At(t, "lock") THEN holder[Step(t).lock] ELSE NoThread

\* Thread t is inside the runtime's unbounded wait of wait_image.
InWait(t) == At(t, "call") /\ Step(t).call = "swapchain_wait"

\* C13: no begin reaches the runtime while a frame is open (a begin was
\* accepted and no end has been accepted since), and no acquire_image
\* reaches the runtime while an image is out (an acquire was accepted and no
\* release has been accepted since).
C13_OneFrameInFlight ==
    [][\A t \in Threads :
          /\ Reaches(t, "stream_begin") => lifecycle = "Idle"
          /\ Reaches(t, "swapchain_acquire") =>
                lifecycle \notin {"ImageAcquired", "ImageWaited"}]_vars

\* C14: no operation other than wait_image waits for a guard held by a
\* thread that is inside wait_image's unbounded wait.
C14_OnlyWaitImageBlocks ==
    \A t \in Threads :
       At(t, "lock") /\ th[t].op # "wait_image" =>
          ~(WaitsOn(t) # NoThread /\ InWait(WaitsOn(t)))

\* C15 as stated: no thread holds the frame-stream guard and the
\* swapchain-handle guard at the same time.
C15_NeverBothLocks ==
    \A t \in Threads : ~({"stream", "handle"} \subseteq Held(t))

\* C15 as the code has it: only a thread inside end() holds the two guards
\* together, and it took the handle guard first; a thread inside any other
\* operation holds at most one guard.
C15_OnlyEndHoldsBothLocks ==
    \A t \in Threads :
       /\ {"stream", "handle"} \subseteq Held(t) => th[t].op = "end"
       /\ th[t].op = "end" /\ "stream" \in Held(t) => "handle" \in Held(t)
       /\ th[t].op # "end" => Cardinality(Held(t)) <= 1

C15_Witness ==
    \E t \in Threads : th[t].op = "end" /\ Held(t) = {"stream", "handle"}

\* C19: once no thread is inside acquire_image the stored index is the one
\* the runtime handed out last, and get_render_views never reads a stored
\* index other than the latest one the runtime has handed out.
C19_AcquireIsAtomic ==
    /\ []((\A t \in Threads : th[t].op # "acquire_image") /\ latest # NoIndex
             => image_index = latest)
    /\ [][\A t \in Threads :
             Reads(t) /\ latest # NoIndex => image_index = latest]_vars

\* Thread t reaches thread u by following at most n waits.
RECURSIVE WaitChain(_, _, _)
WaitChain(t, u, n) ==
    /\ n > 0
    /\ WaitsOn(t) # NoThread
    /\ (WaitsOn(t) = u \/ WaitChain(WaitsOn(t), u, n - 1))

\* C20: no thread waits, directly or through other waiting threads, for a
\* guard it holds itself, and every guard is held by a thread that is inside
\* an operation (so the thread at the end of a chain of waits can run).
C20_NoDeadlock ==
    /\ \A t \in Threads : ~WaitChain(t, t, NumThreads)
    /\ \A l \in Locks : holder[l] # NoThread => InOperation(holder[l])

\* A thread inside end() holds the handle guard and waits for the stream
\* guard, which a thread inside begin() holds.
C20_Witness ==
    \E t, u \in Threads :
       /\ th[t].op = "end" /\ "handle" \in Held(t) /\ WaitsOn(t) = u
       /\ th[u].op = "begin" /\ "stream" \in Held(u)

\* ------------------------------------------------------ claims, submission
\* C21: whenever end() submits, the Projection layer carries exactly the
\* BLEND_TEXTURE_SOURCE_ALPHA flag if a passthrough layer was supplied and no
\* flag otherwise, and the call carries the environment blend mode, the
\* predicted display time and the reference space end() was given.
C21_BlendFlagIffPassthrough ==
    (last.op = "end" /\ Len(last.calls) = 1)
    => LET c == last.calls[1]
           a == last.args
       IN  /\ Projection(c.layers).kind = "Projection"
           /\ Projection(c.layers).layer_flags =
                 (IF a.passthrough_layer # NoPassthrough
                  THEN {"BLEND_TEXTURE_SOURCE_ALPHA"} ELSE {})
           /\ c.blend_mode = a.environment_blend_mode
           /\ c.display_time = a.predicted_display_time
           /\ Projection(c.layers).space = a.stage

\* end() in the space "local" with a passthrough layer has submitted.
C21_Witness ==
    /\ last.op = "end"
    /\ Len(last.calls) = 1
    /\ last.args.passthrough_layer # NoPassthrough
    /\ last.args.stage = "local"
    /\ last.args.environment_blend_mode = "ALPHA_BLEND"
    /\ Projection(last.calls[1].layers).layer_flags = {"BLEND_TEXTURE_SOURCE_ALPHA"}
    /\ last.result = RtOk

\* -------------------------------------------------------- claims, trackers
\* The roots and the parentless trackers of the world the latest run saw.
RootsBefore ==
    {e \in Entities :
        adoption.before[e].spawned /\ adoption.before[e].marker = "OpenXRTrackingRoot"}

OrphansBefore ==
    {e \in Entities :
        /\ adoption.before[e].spawned
        /\ adoption.before[e].marker = "OpenXRTracker"
        /\ adoption.before[e].parent = NoEntity}

Queued == {commands[i] : i \in 1..Len(commands)}

\* C22: with exactly one tracking root, a run queues one add_child(root, t)
\* for each parentless tracker t and nothing else; once the commands are
\* applied each of those trackers has the root as parent, every other entity
\* is as it was, no parentless tracker remains, and the next run queues
\* nothing.  With no root or several, a run queues nothing and the world
\* stays as it was.
C22_AdoptParentlessTrackers ==
    /\ adoption.op = "adopt" =>
          IF Cardinality(RootsBefore) = 1
          THEN /\ Queued = {AddChild(r, t) : r \in RootsBefore, t \in OrphansBefore}
               /\ Len(commands) = Cardinality(OrphansBefore)
               /\ world = adoption.before
          ELSE commands = <<>> /\ world = adoption.before
    /\ adoption.op = "apply" =>
          IF Cardinality(RootsBefore) = 1
          THEN /\ \A e \in OrphansBefore : world[e].parent \in RootsBefore
               /\ \A e \in Entities \ OrphansBefore : world[e] = adoption.before[e]
               /\ \A e \in Entities :
                     world[e].spawned /\ world[e].marker = "OpenXRTracker"
                        => world[e].parent # NoEntity
          ELSE world = adoption.before
    /\ adoption.op = "adopt" /\ adoption.runs = 2 => commands = <<>>

\* The commands of a run under one root have been applied: a parentless
\* tracker now has the root as parent, and a tracker that had another
\* parent has kept it.
C22_Witness ==
    /\ adoption.op = "apply"
    /\ Cardinality(RootsBefore) = 1
    /\ \E t \in OrphansBefore, u \in Entities :
          /\ world[t].parent \in RootsBefore
          /\ world[u].marker = "OpenXRTracker"
          /\ adoption.before[u].parent \notin RootsBefore \cup {NoEntity}
          /\ world[u].parent = adoption.before[u].parent

\* ----------------------------------------------------------- claims, hands
\* The controller transform and the curl the latest run read for a hand.
ControllerOf(hand) == IF hand = "Left" THEN frame.left ELSE frame.right
CurlOf(hand) == IF hand = "Left" THEN frame.curls[1] ELSE frame.curls[2]

\* C23: after a run, every bone that was Tracked has the transform and the
\* radius it had; every other bone has the emulated transform of its own
\* hand (from that hand's controller transform and curls) at its joint
\* index, or the identity transform when that hand's controller transform
\* is missing.  No bone changes its hand, its joint or its status.
C23_UntrackedBonesEmulated ==
    frame.ran =>
       /\ Len(bones) = Len(frame.before)
       /\ \A i \in 1..Len(bones) :
             LET b == frame.before[i]
                 a == bones[i]
             IN  /\ a.bone = b.bone /\ a.hand = b.hand /\ a.status = b.status
                 /\ b.status = "Tracked" =>
                       a.transform = b.transform /\ a.radius = b.radius
                 /\ b.status # "Tracked" =>
                       a.transform =
                          IF ControllerOf(b.hand) = NoTransform
                          THEN IdentityTransform
                          ELSE Pose("emulated", b.hand, ControllerOf(b.hand),
                                    CurlOf(b.hand), get_index_from_bone(b.bone))

\* A run with the right controller transform missing found a tracked bone,
\* which it left alone, and a right-hand bone that had lost tracking, whose
\* tracked pose it replaced by the identity transform.
C23_Witness ==
    /\ frame.ran
    /\ frame.right = NoTransform
    /\ frame.left # NoTransform
    /\ \E i, j \in 1..Len(bones) :
          /\ frame.before[i].status = "Tracked"
          /\ bones[i].transform = TrackedTransform
          /\ frame.before[j].status = "Emulated"
          /\ frame.before[j].hand = "Right"
          /\ frame.before[j].transform = TrackedTransform
          /\ bones[j].transform = IdentityTransform

\* ----------------------------------------------------- claims, verify_quat
\* C24: verify_quat returns the identity when the length of its input is
\* zero or a component is not finite, and the normalized input otherwise;
\* its result is finite and of length one; and verifying the result again
\* returns the same quaternion.
C24_VerifyQuatUnitAndIdempotent ==
    /\ quat.applied >= 1 =>
          /\ quat.result =
                (IF length(quat.input) = Zero \/ ~is_finite(quat.input)
                 THEN IDENTITY ELSE normalize(quat.input))
          /\ is_finite(quat.result)
          /\ length(quat.result) = One
    /\ quat.applied = 2 => quat.again = quat.result

\* C24 on the inputs whose squared length does not overflow: for those the
\* result is the identity or the normalized input, finite and of length
\* one, and verifying it again returns it.
C24_UnitUnlessOverflow ==
    (quat.applied >= 1 /\ length(quat.input) # Inf(1))
    => /\ quat.result =
             (IF length(quat.input) = Zero \/ ~is_finite(quat.input)
              THEN IDENTITY ELSE normalize(quat.input))
       /\ is_finite(quat.result)
       /\ length(quat.result) = One
       /\ quat.applied = 2 => quat.again = quat.result

====
